---- MODULE Spec2Model ----
(***************************************************************************)
(* A model of src/src/camFusion_Student.cpp: the association of Lidar      *)
(* points and keypoint matches with bounding boxes, the Lidar outlier      *)
(* removal by Euclidean clustering, the two time-to-collision estimators   *)
(* and the matching of bounding boxes between frames.                      *)
(*                                                                         *)
(* Every function of the file is a pure operator that computes what the    *)
(* code computes, and an action that applies it to the inputs chosen by    *)
(* Init.  Where the code has undefined behaviour the operator returns the  *)
(* SET of outcomes a build can produce and the action picks one of them.   *)
(*                                                                         *)
(* Lengths are integers.  Lidar coordinates are whole metres, pixel        *)
(* coordinates whole pixels; the inputs are chosen so that every norm the  *)
(* code takes is a whole number, hence exact in float and double.          *)
(* C++ indices are 0-based, TLA+ sequences 1-based: element i of a vector  *)
(* v is v[i + 1].                                                          *)
(***************************************************************************)
EXTENDS Integers, Sequences, FiniteSets, TLC

VARIABLES
    pc,                     \* "ready", or how the operation called ended
    lidarPointsPrev,        \* computeTTCLidar / removeLidarOutlier: the points
    lidarPointsCurr,        \* computeTTCLidar: the current frame's points
    clusterTolerance,       \* removeLidarOutlier's tolerance, a rational
    frameRate,              \* computeTTCLidar, computeTTCCamera
    cluster_indices,        \* removeLidarOutlier: what euclideanCluster returned
    maxLidarPointsCluster,  \* removeLidarOutlier's result
    minXPrev,               \* computeTTCLidar's locals
    minXCurr,
    TTC,                    \* the TTC output parameter
    boundingBoxes,          \* clusterLidarWithROI: the boxes, changed in place
    roiLidarPoints,         \* clusterLidarWithROI: the points (lidarPoints)
    shrinkFactor,           \* clusterLidarWithROI, a rational
    P_rect_xx,              \* clusterLidarWithROI: the calibration matrices
    R_rect_xx,
    RT,
    boundingBox,            \* clusterKptMatchesWithROI: the box, changed in place
    kptsPrev,               \* the keypoints of the previous frame
    kptsCurr,               \* the keypoints of the current frame
    kptMatches,             \* the matches between them
    distRatios,             \* computeTTCCamera's local, before it is sorted
    prevFrame,              \* matchBoundingBoxes: the boxes of the frames
    currFrame,
    bbBestMatches           \* matchBoundingBoxes' result

lidarVars == <<lidarPointsPrev, lidarPointsCurr, clusterTolerance,
               cluster_indices, maxLidarPointsCluster, minXPrev, minXCurr>>

roiVars == <<boundingBoxes, roiLidarPoints, shrinkFactor, P_rect_xx, R_rect_xx, RT>>

cameraVars == <<boundingBox, kptsPrev, kptsCurr, kptMatches, distRatios>>

matchVars == <<prevFrame, currFrame, bbBestMatches>>

vars == <<pc, frameRate, TTC, lidarVars, roiVars, cameraVars, matchVars>>

(***************************************************************************)
(* Helpers of the model                                                    *)
(***************************************************************************)

\* The sequences over S of length 0..n.
SeqsUpTo(S, n) == UNION {[1..k -> S] : k \in 0..n}

Abs(v) == IF v < 0 THEN -v ELSE v

\* A value no operation has produced yet, or an input of another operation.
None == "none"

LidarIdle ==
    /\ lidarPointsPrev = None
    /\ lidarPointsCurr = None
    /\ clusterTolerance = None
    /\ cluster_indices = None
    /\ maxLidarPointsCluster = None
    /\ minXPrev = None
    /\ minXCurr = None

RoiIdle ==
    /\ boundingBoxes = None
    /\ roiLidarPoints = None
    /\ shrinkFactor = None
    /\ P_rect_xx = None
    /\ R_rect_xx = None
    /\ RT = None

CameraIdle ==
    /\ boundingBox = None
    /\ kptsPrev = None
    /\ kptsCurr = None
    /\ kptMatches = None
    /\ distRatios = None

MatchIdle ==
    /\ prevFrame = None
    /\ currFrame = None
    /\ bbBestMatches = None

(***************************************************************************)
(* Lidar: KdTree (kdtree.h is not part of src/; modelled from its          *)
(* contract), clusterHelper, euclideanCluster, removeLidarOutlier          *)
(***************************************************************************)

\* static_cast<float>(double): round to a 24-bit significand, ties to even.
RECURSIVE FloatUlp(_, _)
FloatUlp(a, u) == IF a < 16777216 * u THEN u ELSE FloatUlp(a, 2 * u)

ToFloat(v) ==
    LET a == Abs(v)
        u == FloatUlp(a, 1)
        q == a \div u
        rem == a % u
        rounded == IF 2 * rem > u \/ (2 * rem = u /\ q % 2 = 1)
                   THEN (q + 1) * u ELSE q * u
    IN  IF v < 0 THEN -rounded ELSE rounded

\* A rational n/d, d > 0: the float tolerance 0.1 is [n |-> 1, d |-> 10].
Rational(n, d) == [n |-> n, d |-> d]

\* KdTree::insert(point, id): the tree holds the points with their ids.
KdTreeInsert(tree, point, id) == Append(tree, [point |-> point, id |-> id])

\* Squared Euclidean distance of two 3-d points <<x, y, z>>.
DistSq(p, q) ==
    (p[1] - q[1]) * (p[1] - q[1]) + (p[2] - q[2]) * (p[2] - q[2])
        + (p[3] - q[3]) * (p[3] - q[3])

\* KdTree::search(target, distanceTol): the ids of the inserted points within
\* the closed ball of radius distanceTol around target, in insertion order.
KdTreeSearch(tree, target, distanceTol) ==
    LET near(k) == distanceTol.d * distanceTol.d * DistSq(tree[k].point, target)
                       <= distanceTol.n * distanceTol.n
        idx == SelectSeq([k \in 1..Len(tree) |-> k], near)
    IN  [k \in 1..Len(idx) |-> tree[idx[k]].id]

RECURSIVE clusterHelper(_, _, _, _, _, _)
RECURSIVE clusterHelperNearest(_, _, _, _, _, _, _)

\* Lines 361-367: the loop over the ids the search returned, from position k.
clusterHelperNearest(nearest, k, points, cluster, processed, tree, distanceTol) ==
    IF k > Len(nearest)
    THEN [cluster |-> cluster, processed |-> processed]
    ELSE IF ~processed[nearest[k] + 1]
         THEN LET r == clusterHelper(nearest[k], points, cluster, processed,
                                     tree, distanceTol)
              IN  clusterHelperNearest(nearest, k + 1, points, r.cluster,
                                       r.processed, tree, distanceTol)
         ELSE clusterHelperNearest(nearest, k + 1, points, cluster, processed,
                                   tree, distanceTol)

\* A plausible bug: the neighbours are taken into the cluster as the search
\* returns them, neither checked against processed nor marked.
clusterHelperUnchecked(index, points, cluster, processed, tree, distanceTol) ==
    [cluster |-> cluster \o KdTreeSearch(tree, points[index + 1], distanceTol),
     processed |-> [processed EXCEPT ![index + 1] = TRUE]]

\* clusterHelper: cluster and processed are in-out parameters, returned here.
clusterHelper(index, points, cluster, processed, tree, distanceTol) ==
    LET processed1 == [processed EXCEPT ![index + 1] = TRUE]
        cluster1 == Append(cluster, index)
        nearest == KdTreeSearch(tree, points[index + 1], distanceTol)
    IN  clusterHelperNearest(nearest, 1, points, cluster1, processed1, tree,
                             distanceTol)

\* Lines 379-391: the while loop of euclideanCluster, from index i.
RECURSIVE euclideanClusterFrom(_, _, _, _, _, _)
euclideanClusterFrom(i, clusters, processed, points, tree, distanceTol) ==
    IF i >= Len(points)
    THEN clusters
    ELSE IF processed[i + 1]
         THEN euclideanClusterFrom(i + 1, clusters, processed, points, tree,
                                   distanceTol)
         ELSE LET r == clusterHelper(i, points, <<>>, processed, tree,
                                     distanceTol)
              IN  euclideanClusterFrom(i + 1, Append(clusters, r.cluster),
                                       r.processed, points, tree, distanceTol)

euclideanCluster(points, tree, distanceTol) ==
    euclideanClusterFrom(0, <<>>, [k \in 1..Len(points) |-> FALSE], points,
                         tree, distanceTol)

\* Lines 318-329: the float copies of the coordinates, in input order.
FloatPoints(lidarPoints) ==
    [k \in 1..Len(lidarPoints) |->
        <<ToFloat(lidarPoints[k].x), ToFloat(lidarPoints[k].y),
          ToFloat(lidarPoints[k].z)>>]

\* Lines 317-329: the tree after the insertion of every point with its index.
RECURSIVE BuildTree(_, _, _)
BuildTree(points, k, tree) ==
    IF k > Len(points) THEN tree
    ELSE BuildTree(points, k + 1, KdTreeInsert(tree, points[k], k - 1))

\* Line 330.
ClusterIndices(lidarPoints, tolerance) ==
    LET points == FloatPoints(lidarPoints)
    IN  euclideanCluster(points, BuildTree(points, 1, <<>>), tolerance)

\* Lines 335-339: the points of one cluster, copied from the input.
ClusterPoints(lidarPoints, get_indices) ==
    [k \in 1..Len(get_indices) |-> lidarPoints[get_indices[k] + 1]]

\* A plausible bug: >= instead of >, so that the last of the largest wins.
LargerClusterOrEqual(temp, maxCluster) == Len(temp) >= Len(maxCluster)

\* Line 343: temp.size() > maxLidarPointsCluster.size().
LargerCluster(temp, maxCluster) == Len(temp) > Len(maxCluster)

\* Lines 332-347: the loop over the clusters, from cluster k.
RECURSIVE MaxClusterFrom(_, _, _, _)
MaxClusterFrom(lidarPoints, clusters, k, maxCluster) ==
    IF k > Len(clusters) THEN maxCluster
    ELSE LET temp == ClusterPoints(lidarPoints, clusters[k])
         IN  MaxClusterFrom(lidarPoints, clusters, k + 1,
                            IF LargerCluster(temp, maxCluster)
                            THEN temp ELSE maxCluster)

removeLidarOutlier(lidarPoints, tolerance) ==
    MaxClusterFrom(lidarPoints, ClusterIndices(lidarPoints, tolerance), 1, <<>>)

(***************************************************************************)
(* Inputs of the clustering                                                *)
(***************************************************************************)

MaxPoints == 4

LidarPoint(x, y, z, r) == [x |-> x, y |-> y, z |-> z, r |-> r]

\* A chain 10 - 11 - 12 one metre apart, a far point, and a point that
\* differs from another in its reflectivity only.
ClusterPointPool ==
    { LidarPoint(10, 0, 0, 1), LidarPoint(11, 0, 0, 2), LidarPoint(12, 0, 0, 3),
      LidarPoint(20, 1, 1, 4), LidarPoint(10, 0, 0, 5) }

\* 0.1 m (only equal coordinates are neighbours), 1 m and 1.5 m.
Tolerances == { Rational(1, 10), Rational(1, 1), Rational(3, 2) }

InitCluster ==
    /\ pc = "ready"
    /\ lidarPointsPrev \in SeqsUpTo(ClusterPointPool, MaxPoints)
    /\ clusterTolerance \in Tolerances
    /\ lidarPointsCurr = None
    /\ frameRate = None
    /\ cluster_indices = None
    /\ maxLidarPointsCluster = None
    /\ minXPrev = None
    /\ minXCurr = None
    /\ TTC = None
    /\ RoiIdle /\ CameraIdle /\ MatchIdle

\* A call removeLidarOutlier(lidarPointsPrev, clusterTolerance).
RemoveLidarOutlier ==
    /\ pc = "ready"
    /\ cluster_indices' = ClusterIndices(lidarPointsPrev, clusterTolerance)
    /\ maxLidarPointsCluster' = removeLidarOutlier(lidarPointsPrev, clusterTolerance)
    /\ pc' = "removeLidarOutlier"
    /\ UNCHANGED <<lidarPointsPrev, lidarPointsCurr, clusterTolerance, frameRate,
                   minXPrev, minXCurr, TTC, roiVars, cameraVars, matchVars>>

NextCluster == RemoveLidarOutlier

SpecCluster == InitCluster /\ [][NextCluster]_vars

\* The positions <<k, j>> of cluster_indices that hold index i.
PositionsOf(i) ==
    { kj \in UNION { {<<k, j>> : j \in 1..Len(cluster_indices[k])} :
                        k \in 1..Len(cluster_indices) } :
        cluster_indices[kj[1]][kj[2]] = i }

\* C1: euclideanCluster returns a partition of the index set 0..n-1: every
\* index is at exactly one position of exactly one cluster, no cluster is
\* empty and no cluster holds anything but an index of the input.
C1_Partition ==
    pc = "removeLidarOutlier" =>
        /\ \A i \in 0..(Len(lidarPointsPrev) - 1) : Cardinality(PositionsOf(i)) = 1
        /\ \A k \in 1..Len(cluster_indices) :
              /\ cluster_indices[k] # <<>>
              /\ \A j \in 1..Len(cluster_indices[k]) :
                    cluster_indices[k][j] \in 0..(Len(lidarPointsPrev) - 1)

\* C1's case: four points fall into a cluster of several points, grown
\* through a neighbour of a neighbour, and a singleton cluster.
C1_Witness ==
    /\ pc = "removeLidarOutlier"
    /\ Len(lidarPointsPrev) = 4
    /\ \E k \in 1..Len(cluster_indices) : Len(cluster_indices[k]) = 3
    /\ \E k \in 1..Len(cluster_indices) : Len(cluster_indices[k]) = 1
    /\ clusterTolerance = Rational(1, 1)
    /\ \E a, b \in 1..4 : lidarPointsPrev[a].x = 10 /\ lidarPointsPrev[b].x = 12

\* The first of the clusters of greatest size.
FirstLargest(clusters) ==
    CHOOSE k \in 1..Len(clusters) :
        /\ \A j \in 1..Len(clusters) : Len(clusters[j]) <= Len(clusters[k])
        /\ \A j \in 1..(k - 1) : Len(clusters[j]) < Len(clusters[k])

\* C2: removeLidarOutlier returns the input's own points (payload included)
\* of the first cluster of greatest size among the clusters euclideanCluster
\* produced, in the cluster's order; an empty input gives an empty result.
C2_LargestFirstCluster ==
    pc = "removeLidarOutlier" =>
        /\ cluster_indices # <<>> =>
              LET c == cluster_indices[FirstLargest(cluster_indices)]
              IN  maxLidarPointsCluster =
                      [k \in 1..Len(c) |-> lidarPointsPrev[c[k] + 1]]
        /\ lidarPointsPrev = <<>> => maxLidarPointsCluster = <<>>

\* C2's case: two clusters of the greatest size, interleaved in the input
\* and of different points, and the first of the two is what was returned.
C2_Witness ==
    /\ pc = "removeLidarOutlier"
    /\ Len(cluster_indices) = 2
    /\ cluster_indices[1] = <<0, 2>>
    /\ cluster_indices[2] = <<1, 3>>
    /\ maxLidarPointsCluster = <<lidarPointsPrev[1], lidarPointsPrev[3]>>
    /\ lidarPointsPrev[1].r # lidarPointsPrev[3].r
    /\ lidarPointsPrev[1].x # lidarPointsPrev[2].x

(***************************************************************************)
(* computeTTCLidar                                                         *)
(***************************************************************************)

\* Line 232: laneWidth = 4.0.
laneWidth == 4

\* Line 236: the initial value 1e9 of minXPrev and minXCurr.
minXInit == 1000000000

\* Line 233: clusterTolerance = 0.1.
lidarClusterTolerance == Rational(1, 10)

\* A plausible bug: the points outside the ego lane are not left out.
InLaneAlways(it) == TRUE

\* Lines 247, 255: abs(it.y) <= laneWidth / 2.0.
InLane(it) == 2 * Abs(it.y) <= laneWidth

\* Lines 245-251 and 253-259: the loop over the clustered points, from k.
RECURSIVE MinXFrom(_, _, _)
MinXFrom(points, k, minX) ==
    IF k > Len(points) THEN minX
    ELSE MinXFrom(points, k + 1,
                  IF InLane(points[k])
                  THEN (IF points[k].x < minX THEN points[k].x ELSE minX)
                  ELSE minX)

\* The double num * (1 / rate) / den: a quotient, kept unmultiplied, or what
\* IEEE 754 gives for a division by zero.
Quotient(num, rate, den) ==
    IF den # 0 THEN [num |-> num, rate |-> rate, den |-> den]
    ELSE IF num > 0 THEN "+inf" ELSE IF num < 0 THEN "-inf" ELSE "nan"

\* Lines 231, 264: TTC = minXCurr * dT / (minXPrev - minXCurr), dT = 1 / frameRate.
LidarTTC(prevMinX, currMinX, rate) ==
    Quotient(currMinX, rate, prevMinX - currMinX)

MaxFramePoints == 3

\* In the lane; out of the lane and closer; in the lane and closest.
PrevPointPool ==
    { LidarPoint(10, 0, 0, 1), LidarPoint(8, 3, 0, 2), LidarPoint(7, 0, 1, 4) }

\* The same, and a point on the lane's edge (y = -2).
CurrPointPool == PrevPointPool \cup { LidarPoint(8, -2, 0, 3) }

FrameRates == {10, 20}

InitLidarTTC ==
    /\ pc = "ready"
    /\ lidarPointsPrev \in SeqsUpTo(PrevPointPool, MaxFramePoints)
    /\ lidarPointsCurr \in SeqsUpTo(CurrPointPool, MaxFramePoints)
    /\ clusterTolerance = lidarClusterTolerance
    /\ frameRate \in FrameRates
    /\ cluster_indices = None
    /\ maxLidarPointsCluster = None
    /\ minXPrev = None
    /\ minXCurr = None
    /\ TTC = None
    /\ RoiIdle /\ CameraIdle /\ MatchIdle

\* A call computeTTCLidar(lidarPointsPrev, lidarPointsCurr, frameRate, TTC).
ComputeTTCLidar ==
    /\ pc = "ready"
    /\ LET lidarPointsPrevClustered ==
               removeLidarOutlier(lidarPointsPrev, lidarClusterTolerance)
           lidarPointsCurrClustered ==
               removeLidarOutlier(lidarPointsCurr, lidarClusterTolerance)
           prevMinX == MinXFrom(lidarPointsPrevClustered, 1, minXInit)
           currMinX == MinXFrom(lidarPointsCurrClustered, 1, minXInit)
       IN  /\ minXPrev' = prevMinX
           /\ minXCurr' = currMinX
           /\ TTC' = LidarTTC(prevMinX, currMinX, frameRate)
    /\ pc' = "computeTTCLidar"
    /\ UNCHANGED <<lidarPointsPrev, lidarPointsCurr, clusterTolerance, frameRate,
                   cluster_indices, maxLidarPointsCluster, roiVars, cameraVars,
                   matchVars>>

NextLidarTTC == ComputeTTCLidar

SpecLidarTTC == InitLidarTTC /\ [][NextLidarTTC]_vars

\* The x of the points of a sequence that lie within half the lane width.
LaneXs(points) ==
    { points[k].x : k \in { j \in 1..Len(points) : 2 * Abs(points[j].y) <= 4 } }

\* The least x in the lane among the largest cluster's points, or 1e9.
LaneMinimum(lidarPoints) ==
    LET xs == LaneXs(removeLidarOutlier(lidarPoints, Rational(1, 10)))
    IN  IF xs = {} THEN 1000000000
        ELSE CHOOSE x \in xs : \A other \in xs : x <= other

TruncDiv(a, b) ==
    LET q == Abs(a) \div Abs(b)
    IN  IF (a < 0) # (b < 0) THEN -q ELSE q

\* Row i of A times column j of B, from term k on.
RECURSIVE DotFrom(_, _, _, _, _)
DotFrom(A, i, B, j, k) ==
    IF k > Len(B) THEN 0 ELSE A[i][k] * B[k][j] + DotFrom(A, i, B, j, k + 1)

\* Row i of the product A * B, from column j on.
RECURSIVE MatMulRowFrom(_, _, _, _)
MatMulRowFrom(A, i, B, j) ==
    IF j > Len(B[1]) THEN <<>>
    ELSE <<DotFrom(A, i, B, j, 1)>> \o MatMulRowFrom(A, i, B, j + 1)

\* The rows of the product A * B, from row i on.
RECURSIVE MatMulFrom(_, _, _)
MatMulFrom(A, i, B) ==
    IF i > Len(A) THEN <<>>
    ELSE <<MatMulRowFrom(A, i, B, 1)>> \o MatMulFrom(A, i + 1, B)

\* cv::Mat's operator *: a matrix is the sequence of its rows.
MatMul(A, B) == MatMulFrom(A, 1, B)

\* cv::Mat::at<double>(i0, i1) of a continuous matrix, as a release build
\* computes it: element i0 * cols + i1 of the data. (Only a debug build
\* checks i1 against the columns.)
MatAt(M, i0, i1) ==
    LET cols == Len(M[1])
        at == i0 * cols + i1
    IN  M[(at \div cols) + 1][(at % cols) + 1]

\* Line 30: P_rect_xx * R_rect_xx * RT, the same for every point.
CameraMatrix(P, R, E) == MatMul(MatMul(P, R), E)

\* Lines 24-33: the pixel of a Lidar point, M being P_rect_xx * R_rect_xx * RT.
\* Y is 3 x 1, so that Y(0, 2) is its third element; the inputs keep it
\* different from 0.
ProjectLidarPoint(M, it1) ==
    LET X == << <<it1.x>>, <<it1.y>>, <<it1.z>>, <<1>> >>
        Y == MatMul(M, X)
    IN  [x |-> TruncDiv(MatAt(Y, 0, 0), MatAt(Y, 0, 2)),
         y |-> TruncDiv(MatAt(Y, 1, 0), MatAt(Y, 0, 2))]

Rect(x, y, width, height) == [x |-> x, y |-> y, width |-> width, height |-> height]

\* cv::Rect::contains: the left and top edges are inside, the others are not.
RectContains(roi, pt) ==
    /\ roi.x <= pt.x /\ pt.x < roi.x + roi.width
    /\ roi.y <= pt.y /\ pt.y < roi.y + roi.height

\* Lines 39-43: the shrunk box, each double converted to int. The factors of
\* the inputs are multiples of 1/4, exact in float.
SmallerBox(roi, factor) ==
    Rect(TruncDiv(2 * factor.d * roi.x + factor.n * roi.width, 2 * factor.d),
         TruncDiv(2 * factor.d * roi.y + factor.n * roi.height, 2 * factor.d),
         TruncDiv(roi.width * (factor.d - factor.n), factor.d),
         TruncDiv(roi.height * (factor.d - factor.n), factor.d))

\* Lines 35-51: the positions (iterators) of the boxes whose shrunk box
\* contains pt, in the order of the boxes.
EnclosingBoxes(boxes, factor, pt) ==
    LET encloses(k) == RectContains(SmallerBox(boxes[k].roi, factor), pt)
    IN  SelectSeq([k \in 1..Len(boxes) |-> k], encloses)

\* A plausible bug: a point enclosed by several boxes goes to the first.
EnclosedAtLeastOnce(enclosingBoxes) == Len(enclosingBoxes) >= 1

\* Line 54: enclosingBoxes.size() == 1.
EnclosedOnce(enclosingBoxes) == Len(enclosingBoxes) = 1

\* Lines 21-60: the loop over the Lidar points, from point k.
RECURSIVE ClusterLidarFrom(_, _, _, _, _)
ClusterLidarFrom(boxes, points, k, factor, M) ==
    IF k > Len(points) THEN boxes
    ELSE LET pt == ProjectLidarPoint(M, points[k])
             enclosingBoxes == EnclosingBoxes(boxes, factor, pt)
             boxes1 ==
                 IF EnclosedOnce(enclosingBoxes)
                 THEN [boxes EXCEPT ![enclosingBoxes[1]].lidarPoints =
                                        Append(@, points[k])]
                 ELSE boxes
         IN  ClusterLidarFrom(boxes1, points, k + 1, factor, M)

\* A BoundingBox with nothing associated yet.
BoundingBox(boxID, roi) ==
    [boxID |-> boxID, roi |-> roi, lidarPoints |-> <<>>, kptMatches |-> <<>>]

MaxBoxes == 2

MaxLidarPoints == 3

\* Two boxes that overlap and a small one inside the first.
RoiPool == { Rect(0, 0, 8, 8), Rect(2, 0, 8, 4), Rect(0, 0, 3, 3) }

\* Points in front of the sensor (x > 0), with different pixels; that of the
\* first is not whole before the conversion to int.
RoiPointPool ==
    { LidarPoint(2, -5, -2, 1), LidarPoint(1, -4, -1, 2), LidarPoint(1, -8, -1, 3) }

ShrinkFactors == { Rational(0, 4), Rational(1, 4), Rational(2, 4) }

\* Projections with focal lengths 1 and 2 and the principal point (0, 0).
Projections ==
    { << <<f, 0, 0, 0>>, <<0, f, 0, 0>>, <<0, 0, 1, 0>> >> : f \in {1, 2} }

Identity4 == << <<1, 0, 0, 0>>, <<0, 1, 0, 0>>, <<0, 0, 1, 0>>, <<0, 0, 0, 1>> >>

\* Lidar (x ahead, y left, z up) to camera (x right, y down, z ahead).
LidarToCamera == << <<0, -1, 0, 0>>, <<0, 0, -1, 0>>, <<1, 0, 0, 0>>, <<0, 0, 0, 1>> >>

\* The boxes of a frame: boxes over a pool of rectangles, numbered in order.
BoxesOver(pool, n) ==
    { [k \in 1..Len(rois) |-> BoundingBox(k - 1, rois[k])] : rois \in SeqsUpTo(pool, n) }

InitROI ==
    /\ pc = "ready"
    /\ boundingBoxes \in BoxesOver(RoiPool, MaxBoxes)
    /\ roiLidarPoints \in SeqsUpTo(RoiPointPool, MaxLidarPoints)
    /\ shrinkFactor \in ShrinkFactors
    /\ P_rect_xx \in Projections
    /\ R_rect_xx = Identity4
    /\ RT = LidarToCamera
    /\ frameRate = None
    /\ TTC = None
    /\ LidarIdle /\ CameraIdle /\ MatchIdle

\* A call clusterLidarWithROI(boundingBoxes, roiLidarPoints, shrinkFactor,
\* P_rect_xx, R_rect_xx, RT).
ClusterLidarWithROI ==
    /\ pc = "ready"
    /\ boundingBoxes' =
           ClusterLidarFrom(boundingBoxes, roiLidarPoints, 1, shrinkFactor,
                            CameraMatrix(P_rect_xx, R_rect_xx, RT))
    /\ pc' = "clusterLidarWithROI"
    /\ UNCHANGED <<roiLidarPoints, shrinkFactor, P_rect_xx, R_rect_xx, RT,
                   frameRate, TTC, lidarVars, cameraVars, matchVars>>

NextROI == ClusterLidarWithROI

SpecROI == InitROI /\ [][NextROI]_vars

\* The boxes whose shrunk rectangle the pixel pt lies in.
ShrunkBoxesAround(pt) ==
    { b \in 1..Len(boundingBoxes) :
        RectContains(SmallerBox(boundingBoxes[b].roi, shrinkFactor), pt) }

\* The pixels of the input points.
RECURSIVE PixelsFrom(_, _)
PixelsFrom(M, k) ==
    IF k > Len(roiLidarPoints) THEN <<>>
    ELSE <<ProjectLidarPoint(M, roiLidarPoints[k])>> \o PixelsFrom(M, k + 1)

Pixels == PixelsFrom(CameraMatrix(P_rect_xx, R_rect_xx, RT), 1)

\* C3: after clusterLidarWithROI a box holds exactly the input points, in
\* input order, whose pixel lies in its shrunk rectangle and in no other
\* box's; a point in no or in several shrunk rectangles is in no box.
C3_ExactlyOneBox ==
    pc = "clusterLidarWithROI" =>
        LET pixels == Pixels
            assigned(b) ==
                { k \in 1..Len(roiLidarPoints) : ShrunkBoxesAround(pixels[k]) = {b} }
        IN  \A b \in 1..Len(boundingBoxes) :
                /\ Len(boundingBoxes[b].lidarPoints) = Cardinality(assigned(b))
                /\ \A n \in 1..Len(boundingBoxes[b].lidarPoints) :
                      \E k \in assigned(b) :
                          /\ Cardinality({ j \in assigned(b) : j <= k }) = n
                          /\ boundingBoxes[b].lidarPoints[n] = roiLidarPoints[k]

\* C3's case: of three points, one lies in both shrunk rectangles, one in
\* the second only and one in none, and only the second box got a point.
C3_Witness ==
    /\ pc = "clusterLidarWithROI"
    /\ Len(boundingBoxes) = 2
    /\ Len(roiLidarPoints) = 3
    /\ shrinkFactor.n > 0
    /\ ShrunkBoxesAround(Pixels[1]) = {1, 2}
    /\ ShrunkBoxesAround(Pixels[2]) = {2}
    /\ ShrunkBoxesAround(Pixels[3]) = {}
    /\ boundingBoxes[1].lidarPoints = <<>>
    /\ boundingBoxes[2].lidarPoints = <<roiLidarPoints[2]>>

(***************************************************************************)
(* Keypoints and matches                                                   *)
(***************************************************************************)

\* A cv::KeyPoint, of which only pt is used; pixel coordinates are whole.
KeyPoint(x, y) == [x |-> x, y |-> y]

\* A cv::DMatch: queryIdx is an index of the previous frame's keypoints,
\* trainIdx one of the current frame's.
DMatch(queryIdx, trainIdx) == [queryIdx |-> queryIdx, trainIdx |-> trainIdx]

InRange(keypoints, idx) == 0 <= idx /\ idx < Len(keypoints)

\* How an operation ends other than by returning.
Segfault == "segfault"
OutOfRange == "out_of_range"
Abort == "abort"

\* What a read gives: a keypoint, or failed is set and there is none.
Read(pt) == [failed |-> FALSE, pt |-> pt]
FailedRead == [failed |-> TRUE, pt |-> KeyPoint(0, 0)]

\* What a read outside a vector's elements can give: a keypoint that
\* happens to lie in the boxes, one that lies in none, or a fault.
GarbageReads == { Read(KeyPoint(1, 1)), Read(KeyPoint(1000, 1000)), FailedRead }

\* keypoints[idx], vector::operator[]: unchecked, undefined out of range.
UncheckedRead(keypoints, idx) ==
    IF InRange(keypoints, idx) THEN {Read(keypoints[idx + 1])} ELSE GarbageReads

\* keypoints.at(idx): the element, or (failed) std::out_of_range thrown.
CheckedRead(keypoints, idx) ==
    IF InRange(keypoints, idx) THEN Read(keypoints[idx + 1]) ELSE FailedRead

(***************************************************************************)
(* get_max, matchBoundingBoxes                                             *)
(***************************************************************************)

\* A std::map is a function on its keys; <<>> is the empty map.
MapPut(m, key, value) ==
    [k \in (DOMAIN m) \cup {key} |-> IF k = key THEN value ELSE m[k]]

\* The keys of a map in the order of its iteration: ascending.
RECURSIVE KeysInOrder(_)
KeysInOrder(keys) ==
    IF keys = {} THEN <<>>
    ELSE LET least == CHOOSE k \in keys : \A other \in keys : k <= other
         IN  <<least>> \o KeysInOrder(keys \ {least})

\* A plausible bug: <= in the comparison, so that the last largest wins.
SecondLessOrEqual(m, p1, p2) == m[p1] <= m[p2]

\* Lines 272-275: the comparison handed to max_element, on the entries'
\* counts.
SecondLess(m, p1, p2) == m[p1] < m[p2]

\* std::max_element over keys[k..]: largest moves on to an element only
\* when it compares less than that element.
RECURSIVE MaxElementFrom(_, _, _, _)
MaxElementFrom(m, keys, k, largest) ==
    IF k > Len(keys) THEN largest
    ELSE MaxElementFrom(m, keys, k + 1,
                        IF SecondLess(m, largest, keys[k]) THEN keys[k] ELSE largest)

\* What *end() of an empty map can give as a key: the 0 of libstdc++'s header
\* node, some other int, or the abort of a checked build.
EndDereferences ==
    { [aborted |-> FALSE, first |-> 0], [aborted |-> FALSE, first |-> 99],
      [aborted |-> TRUE, first |-> 0] }

\* get_max(m): the outcomes, of which .first is used. max_element of an
\* empty map returns end(), which get_max dereferences.
get_max(m) ==
    IF DOMAIN m = {} THEN EndDereferences
    ELSE LET keys == KeysInOrder(DOMAIN m)
         IN  {[aborted |-> FALSE, first |-> MaxElementFrom(m, keys, 2, keys[1])]}

\* Lines 294-301.
CountVote(m, boxID) ==
    IF boxID \notin DOMAIN m THEN MapPut(m, boxID, 1)
    ELSE MapPut(m, boxID, m[boxID] + 1)

\* What the reads of one match's two keypoints give: the sets of outcomes.
\* reads[j] is a choice for match j, the same each time the match is read.
RECURSIVE ReadsFrom(_, _, _, _)
ReadsFrom(matches, j, prevKeypoints, currKeypoints) ==
    IF j > Len(matches) THEN {<<>>}
    ELSE { <<[prev |-> a, curr |-> b]>> \o rest :
             a \in UncheckedRead(prevKeypoints, matches[j].queryIdx),
             b \in UncheckedRead(currKeypoints, matches[j].trainIdx),
             rest \in ReadsFrom(matches, j + 1, prevKeypoints, currKeypoints) }

\* Lines 284-305: the loops over the current boxes (from c) and the matches
\* (from j) for one previous box: the map m, or failed at a read.
RECURSIVE TallyFrom(_, _, _, _, _, _)
TallyFrom(prevBox, currBoxes, c, reads, j, m) ==
    IF c > Len(currBoxes) THEN [failed |-> FALSE, m |-> m]
    ELSE IF j > Len(reads) THEN TallyFrom(prevBox, currBoxes, c + 1, reads, 1, m)
    ELSE IF reads[j].prev.failed THEN [failed |-> TRUE, m |-> m]
    ELSE IF ~RectContains(prevBox.roi, reads[j].prev.pt)
         THEN TallyFrom(prevBox, currBoxes, c, reads, j + 1, m)
    ELSE IF reads[j].curr.failed THEN [failed |-> TRUE, m |-> m]
    ELSE IF RectContains(currBoxes[c].roi, reads[j].curr.pt)
         THEN TallyFrom(prevBox, currBoxes, c, reads, j + 1,
                        CountVote(m, currBoxes[c].boxID))
         ELSE TallyFrom(prevBox, currBoxes, c, reads, j + 1, m)

\* Lines 281-311: the loop over the previous boxes, from box k: the outcomes
\* [pc, bbBestMatches].
RECURSIVE MatchBoxesFrom(_, _, _, _, _)
MatchBoxesFrom(prevBoxes, k, currBoxes, reads, best) ==
    IF k > Len(prevBoxes)
    THEN {[pc |-> "matchBoundingBoxes", bbBestMatches |-> best]}
    ELSE LET tally == TallyFrom(prevBoxes[k], currBoxes, 1, reads, 1, <<>>)
         IN  IF tally.failed
             THEN {[pc |-> Segfault, bbBestMatches |-> best]}
             ELSE UNION { IF max.aborted
                          THEN {[pc |-> Abort, bbBestMatches |-> best]}
                          ELSE MatchBoxesFrom(prevBoxes, k + 1, currBoxes, reads,
                                              MapPut(best, prevBoxes[k].boxID,
                                                     max.first))
                          : max \in get_max(tally.m) }

matchBoundingBoxes(matches, best, prev, curr) ==
    UNION { MatchBoxesFrom(prev.boundingBoxes, 1, curr.boundingBoxes, reads, best) :
              reads \in ReadsFrom(matches, 1, prev.keypoints, curr.keypoints) }

DataFrame(boxes, keypoints) == [boundingBoxes |-> boxes, keypoints |-> keypoints]

\* A call matchBoundingBoxes(kptMatches, bbBestMatches, prevFrame, currFrame).
MatchBoundingBoxes ==
    /\ pc = "ready"
    /\ \E outcome \in matchBoundingBoxes(kptMatches, bbBestMatches, prevFrame, currFrame) :
          /\ pc' = outcome.pc
          /\ bbBestMatches' = outcome.bbBestMatches
    /\ UNCHANGED <<prevFrame, currFrame, boundingBox, kptsPrev, kptsCurr,
                   kptMatches, distRatios, frameRate, TTC, lidarVars, roiVars>>

(***************************************************************************)
(* clusterKptMatchesWithROI                                                *)
(***************************************************************************)

\* cv::norm of the difference of two points. The keypoints of the inputs
\* are such that it is a whole number.
Norm(a, b) ==
    LET sq == (a.x - b.x) * (a.x - b.x) + (a.y - b.y) * (a.y - b.y)
    IN  CHOOSE r \in 0..(Abs(a.x - b.x) + Abs(a.y - b.y)) : r * r = sq

\* Lines 136-141: the loop over the matches, from match j: the outcomes.
\* kptsCurr[match.trainIdx] is an unchecked read.
RECURSIVE AssignMatchesFrom(_, _, _, _, _)
AssignMatchesFrom(matches, j, roi, currKeypoints, assigned) ==
    IF j > Len(matches) THEN {[failed |-> FALSE, kptMatches |-> assigned]}
    ELSE UNION {
           IF currKeyPoint.failed
           THEN {[failed |-> TRUE, kptMatches |-> assigned]}
           ELSE AssignMatchesFrom(matches, j + 1, roi, currKeypoints,
                                  IF RectContains(roi, currKeyPoint.pt)
                                  THEN Append(assigned, matches[j]) ELSE assigned)
           : currKeyPoint \in UncheckedRead(currKeypoints, matches[j].trainIdx) }

\* Lines 145-151: the sum of the displacements, from element k; at() throws
\* for an index out of range.
RECURSIVE SumDistFrom(_, _, _, _, _)
SumDistFrom(assigned, k, prevKeypoints, currKeypoints, sum) ==
    IF k > Len(assigned) THEN [failed |-> FALSE, sum |-> sum]
    ELSE LET kpCurr == CheckedRead(currKeypoints, assigned[k].trainIdx)
             kpPrev == CheckedRead(prevKeypoints, assigned[k].queryIdx)
         IN  IF kpCurr.failed \/ kpPrev.failed
             THEN [failed |-> TRUE, sum |-> sum]
             ELSE SumDistFrom(assigned, k + 1, prevKeypoints, currKeypoints,
                              sum + Norm(kpCurr.pt, kpPrev.pt))

\* Lines 153-161: dist >= mean * ratio, with mean = sum / size and ratio = 1.5.
AtLeastMeanTimesRatio(dist, sum, size) == 2 * dist * size >= 3 * sum

\* The vector without its element at position pos (1-based).
Erased(v, pos) == SubSeq(v, 1, pos - 1) \o SubSeq(v, pos + 1, Len(v))

\* Line 163: erase(it), its result dropped. erase invalidates it; the loop
\* goes on using it. A build with plain iterators finds the next element
\* under it; a build with checked iterators aborts at its next use.
EraseOutcomes(v, pos) ==
    { [aborted |-> FALSE, v |-> Erased(v, pos)],
      [aborted |-> TRUE, v |-> Erased(v, pos)] }

\* Lines 156-169: the loop that erases the outliers, it at position pos.
RECURSIVE EraseOutliersFrom(_, _, _, _, _, _)
EraseOutliersFrom(v, pos, prevKeypoints, currKeypoints, sum, size) ==
    IF pos > Len(v) THEN {[pc |-> "clusterKptMatchesWithROI", kptMatches |-> v]}
    ELSE LET kpCurr == CheckedRead(currKeypoints, v[pos].trainIdx)
             kpPrev == CheckedRead(prevKeypoints, v[pos].queryIdx)
         IN  IF AtLeastMeanTimesRatio(Norm(kpCurr.pt, kpPrev.pt), sum, size)
             THEN UNION { IF e.aborted
                          THEN {[pc |-> Abort, kptMatches |-> e.v]}
                          ELSE EraseOutliersFrom(e.v, pos, prevKeypoints,
                                                 currKeypoints, sum, size)
                          : e \in EraseOutcomes(v, pos) }
             ELSE EraseOutliersFrom(v, pos + 1, prevKeypoints, currKeypoints,
                                    sum, size)

\* clusterKptMatchesWithROI: the outcomes [pc, kptMatches], kptMatches being
\* the box's.
clusterKptMatchesWithROI(box, prevKeypoints, currKeypoints, matches) ==
    UNION {
      IF a.failed THEN {[pc |-> Segfault, kptMatches |-> a.kptMatches]}
      ELSE LET s == SumDistFrom(a.kptMatches, 1, prevKeypoints, currKeypoints, 0)
           IN  IF s.failed THEN {[pc |-> OutOfRange, kptMatches |-> a.kptMatches]}
               ELSE EraseOutliersFrom(a.kptMatches, 1, prevKeypoints,
                                      currKeypoints, s.sum, Len(a.kptMatches))
      : a \in AssignMatchesFrom(matches, 1, box.roi, currKeypoints, box.kptMatches) }

\* A call clusterKptMatchesWithROI(boundingBox, kptsPrev, kptsCurr, kptMatches).
ClusterKptMatchesWithROI ==
    /\ pc = "ready"
    /\ \E outcome \in clusterKptMatchesWithROI(boundingBox, kptsPrev, kptsCurr,
                                                kptMatches) :
          /\ pc' = outcome.pc
          /\ boundingBox' = [boundingBox EXCEPT !.kptMatches = outcome.kptMatches]
    /\ UNCHANGED <<kptsPrev, kptsCurr, kptMatches, distRatios, frameRate, TTC,
                   lidarVars, roiVars, matchVars>>

MaxKptMatches == 4

\* Keypoints whose distances are 120, 160 and 200 pixels.
Grid == <<KeyPoint(0, 0), KeyPoint(120, 0), KeyPoint(0, 160), KeyPoint(120, 160)>>

\* A box around every keypoint of Grid and one around those with x = 0.
KptRoiPool == { Rect(0, 0, 130, 170), Rect(0, 0, 100, 170) }

\* Matches with the displacements 0, 200, 120, 160, 120 and 120.
KptMatchPool ==
    { DMatch(0, 0), DMatch(3, 0), DMatch(1, 0), DMatch(0, 2), DMatch(0, 1),
      DMatch(2, 3) }

InitKpt ==
    /\ pc = "ready"
    /\ boundingBox \in { BoundingBox(0, roi) : roi \in KptRoiPool }
    /\ kptsPrev = Grid
    /\ kptsCurr = Grid
    /\ kptMatches \in SeqsUpTo(KptMatchPool, MaxKptMatches)
    /\ distRatios = None
    /\ frameRate = None
    /\ TTC = None
    /\ LidarIdle /\ RoiIdle /\ MatchIdle

NextKpt == ClusterKptMatchesWithROI

SpecKpt == InitKpt /\ [][NextKpt]_vars

\* The matches whose current keypoint lies in the box (positions in kptMatches).
InBox ==
    { j \in 1..Len(kptMatches) :
        RectContains(boundingBox.roi, kptsCurr[kptMatches[j].trainIdx + 1]) }

Displacement(j) ==
    Norm(kptsCurr[kptMatches[j].trainIdx + 1], kptsPrev[kptMatches[j].queryIdx + 1])

RECURSIVE SumOver(_)
SumOver(positions) ==
    IF positions = {} THEN 0
    ELSE LET j == CHOOSE k \in positions : TRUE
         IN  Displacement(j) + SumOver(positions \ {j})

\* The matches of InBox with a displacement below 1.5 times the mean of InBox.
Inliers ==
    { j \in InBox : 2 * Displacement(j) * Cardinality(InBox) < 3 * SumOver(InBox) }

\* The matches at the positions of a set, in the order of kptMatches.
RECURSIVE MatchesAtFrom(_, _)
MatchesAtFrom(positions, j) ==
    IF j > Len(kptMatches) THEN <<>>
    ELSE (IF j \in positions THEN <<kptMatches[j]>> ELSE <<>>)
             \o MatchesAtFrom(positions, j + 1)

\* C6: clusterKptMatchesWithROI returns, and the box then holds exactly the
\* matches whose current keypoint lies in it and whose displacement is below
\* 1.5 times the mean displacement of all such matches, in their order.
C6_OutliersErased ==
    pc # "ready" =>
        /\ pc = "clusterKptMatchesWithROI"
        /\ boundingBox.kptMatches = MatchesAtFrom(Inliers, 1)

\* What a build with plain iterators does: whenever the call returns, the
\* box holds what C6 says.
C6_WhenReturned ==
    pc = "clusterKptMatchesWithROI" =>
        boundingBox.kptMatches = MatchesAtFrom(Inliers, 1)

(***************************************************************************)
(* computeTTCCamera                                                        *)
(***************************************************************************)

RECURSIVE GCD(_, _)
GCD(a, b) == IF b = 0 THEN a ELSE GCD(b, a % b)

\* The double num / den, den > 0, as a fraction in lowest terms: two
\* quotients are the same double when they are the same fraction.
Ratio(num, den) ==
    LET g == GCD(num, den) IN [num |-> num \div g, den |-> den \div g]

RatioLess(a, b) == a.num * b.den < b.num * a.den

\* Line 189.
minDist == 100

\* Line 199: distPrev > epsilon && distCurr >= minDist, the distances
\* being whole pixels.
Qualifies(distPrev, distCurr) == distPrev > 0 /\ distCurr >= minDist

\* Lines 186-205: the inner loop, it2 at position j (1-based), for the
\* outer correspondence at position i.
RECURSIVE InnerLoopFrom(_, _, _, _, _, _)
InnerLoopFrom(matches, i, j, prevKeypoints, currKeypoints, ratios) ==
    IF j > Len(matches) THEN [failed |-> FALSE, distRatios |-> ratios]
    ELSE LET kpOuterCurr == CheckedRead(currKeypoints, matches[i].trainIdx)
             kpOuterPrev == CheckedRead(prevKeypoints, matches[i].queryIdx)
             kpInnerCurr == CheckedRead(currKeypoints, matches[j].trainIdx)
             kpInnerPrev == CheckedRead(prevKeypoints, matches[j].queryIdx)
         IN  IF kpInnerCurr.failed \/ kpInnerPrev.failed
             THEN [failed |-> TRUE, distRatios |-> ratios]
             ELSE LET distCurr == Norm(kpOuterCurr.pt, kpInnerCurr.pt)
                      distPrev == Norm(kpOuterPrev.pt, kpInnerPrev.pt)
                  IN  InnerLoopFrom(matches, i, j + 1, prevKeypoints, currKeypoints,
                                    IF Qualifies(distPrev, distCurr)
                                    THEN Append(ratios, Ratio(distCurr, distPrev))
                                    ELSE ratios)

\* Lines 179-206: the outer loop, it1 at position i, up to end() - 1; the
\* inner loop starts at begin() + 1 for every it1.
RECURSIVE OuterLoopFrom(_, _, _, _, _)
OuterLoopFrom(matches, i, prevKeypoints, currKeypoints, ratios) ==
    IF i = Len(matches) THEN [failed |-> FALSE, distRatios |-> ratios]
    ELSE IF \/ CheckedRead(currKeypoints, matches[i].trainIdx).failed
            \/ CheckedRead(prevKeypoints, matches[i].queryIdx).failed
         THEN [failed |-> TRUE, distRatios |-> ratios]
         ELSE LET inner == InnerLoopFrom(matches, i, 2, prevKeypoints,
                                         currKeypoints, ratios)
              IN  IF inner.failed THEN inner
                  ELSE OuterLoopFrom(matches, i + 1, prevKeypoints, currKeypoints,
                                     inner.distRatios)

\* Line 215: the ratios in ascending order.
RECURSIVE Insert(_, _)
Insert(sorted, r) ==
    IF sorted = <<>> THEN <<r>>
    ELSE IF RatioLess(r, Head(sorted)) THEN <<r>> \o sorted
    ELSE <<Head(sorted)>> \o Insert(Tail(sorted), r)

RECURSIVE Sort(_)
Sort(ratios) ==
    IF ratios = <<>> THEN <<>> ELSE Insert(Sort(Tail(ratios)), Head(ratios))

\* Lines 218-219: the median of a sorted, non-empty list; medIndex is
\* 0-based in the code.
Median(sorted) ==
    LET medIndex == Len(sorted) \div 2
    IN  IF Len(sorted) % 2 = 0
        THEN Ratio(sorted[medIndex].num * sorted[medIndex + 1].den
                     + sorted[medIndex + 1].num * sorted[medIndex].den,
                   2 * sorted[medIndex].den * sorted[medIndex + 1].den)
        ELSE sorted[medIndex + 1]

NaN == "nan"

\* Lines 223-224: TTC = -dT / (1 - medDistRatio), dT = 1 / frameRate.
CameraTTC(medDistRatio, rate) ==
    Quotient(0 - medDistRatio.den, rate, medDistRatio.den - medDistRatio.num)

\* Line 179 on an empty list: end() - 1 lies before begin(), it1 never
\* meets it and the body dereferences it1. The read faults, or gives an
\* index that at() rejects, or a checked build stops.
EmptyListOutcomes == { Segfault, OutOfRange, Abort }

\* computeTTCCamera: the outcomes [pc, distRatios, TTC]; ttc is the value
\* the caller's TTC had.
computeTTCCamera(prevKeypoints, currKeypoints, matches, rate, ttc) ==
    IF matches = <<>>
    THEN { [pc |-> outcome, distRatios |-> <<>>, TTC |-> ttc]
           : outcome \in EmptyListOutcomes }
    ELSE LET loop == OuterLoopFrom(matches, 1, prevKeypoints, currKeypoints, <<>>)
             sorted == Sort(loop.distRatios)
         IN  IF loop.failed
             THEN {[pc |-> OutOfRange, distRatios |-> loop.distRatios, TTC |-> ttc]}
             ELSE IF loop.distRatios = <<>>
             THEN {[pc |-> "computeTTCCamera", distRatios |-> <<>>, TTC |-> NaN]}
             ELSE {[pc |-> "computeTTCCamera", distRatios |-> sorted,
                    TTC |-> CameraTTC(Median(sorted), rate)]}

\* A call computeTTCCamera(kptsPrev, kptsCurr, kptMatches, frameRate, TTC).
ComputeTTCCamera ==
    /\ pc = "ready"
    /\ \E outcome \in computeTTCCamera(kptsPrev, kptsCurr, kptMatches,
                                        frameRate, TTC) :
          /\ pc' = outcome.pc
          /\ distRatios' = outcome.distRatios
          /\ TTC' = outcome.TTC
    /\ UNCHANGED <<boundingBox, kptsPrev, kptsCurr, kptMatches, frameRate,
                   lidarVars, roiVars, matchVars>>

MaxTTCMatches == 4

\* Keypoints whose distances are 60, 80 and 100 pixels.
SmallGrid == <<KeyPoint(0, 0), KeyPoint(60, 0), KeyPoint(0, 80), KeyPoint(60, 80)>>

\* Correspondences that keep, swap and merge keypoints.
TTCMatchPool ==
    { DMatch(0, 0), DMatch(1, 1), DMatch(2, 2), DMatch(3, 3), DMatch(1, 2),
      DMatch(0, 1) }

InitTTCCamera ==
    /\ pc = "ready"
    /\ boundingBox = None
    /\ kptsPrev = SmallGrid
    /\ kptsCurr \in {Grid, SmallGrid}
    /\ kptMatches \in SeqsUpTo(TTCMatchPool, MaxTTCMatches)
    /\ distRatios = <<>>
    /\ frameRate \in FrameRates
    /\ TTC = None
    /\ LidarIdle /\ RoiIdle /\ MatchIdle

NextTTCCamera == ComputeTTCCamera

SpecTTCCamera == InitTTCCamera /\ [][NextTTCCamera]_vars

\* The pair of correspondences at positions i and j qualifies.
PairQualifies(i, j) ==
    Qualifies(Norm(kptsPrev[kptMatches[i].queryIdx + 1],
                   kptsPrev[kptMatches[j].queryIdx + 1]),
              Norm(kptsCurr[kptMatches[i].trainIdx + 1],
                   kptsCurr[kptMatches[j].trainIdx + 1]))

PairRatio(i, j) ==
    Ratio(Norm(kptsCurr[kptMatches[i].trainIdx + 1],
               kptsCurr[kptMatches[j].trainIdx + 1]),
          Norm(kptsPrev[kptMatches[i].queryIdx + 1],
               kptsPrev[kptMatches[j].queryIdx + 1]))

\* The unordered pairs of distinct correspondences that qualify.
QualifyingPairs ==
    { p \in (1..Len(kptMatches)) \X (1..Len(kptMatches)) :
        p[1] < p[2] /\ PairQualifies(p[1], p[2]) }

\* C7: when no pair of correspondences qualifies, a list of length 0 or 1
\* included, computeTTCCamera returns and has set TTC to NaN.
C7_NoPairGivesNaN ==
    (pc # "ready" /\ QualifyingPairs = {}) =>
        (pc = "computeTTCCamera" /\ TTC = NaN)

\* The ratios of a set of pairs, one for each pair, in ascending order.
RECURSIVE RatiosOver(_)
RatiosOver(pairs) ==
    IF pairs = {} THEN <<>>
    ELSE LET p == CHOOSE q \in pairs : TRUE
         IN  Insert(RatiosOver(pairs \ {p}), PairRatio(p[1], p[2]))

\* C10: for a list of at least two correspondences, the ratios are those of
\* the qualifying unordered pairs, each once, and TTC is taken from their
\* median.
C10_OneRatioPerPair ==
    (pc = "computeTTCCamera" /\ Len(kptMatches) >= 2) =>
        /\ distRatios = RatiosOver(QualifyingPairs)
        /\ QualifyingPairs # {} =>
              TTC = CameraTTC(Median(RatiosOver(QualifyingPairs)), frameRate)

MaxPrevBoxes == 2

MaxCurrBoxes == 2

MaxMatches == 3

\* The previous frame: keypoint 0 lies in both rectangles of the pool,
\* keypoint 1 in the second only, keypoint 2 in none.
PrevKeypoints == <<KeyPoint(1, 1), KeyPoint(5, 1), KeyPoint(9, 9)>>
PrevRoiPool == { Rect(0, 0, 4, 4), Rect(0, 0, 8, 4) }

\* The current frame: keypoint 0 lies in both rectangles, keypoint 1 in the
\* first only, keypoint 2 in the second only.
CurrKeypoints == <<KeyPoint(1, 1), KeyPoint(5, 1), KeyPoint(1, 5)>>
CurrRoiPool == { Rect(0, 0, 8, 4), Rect(0, 0, 4, 8) }

\* Box lists over a pool of rectangles whose boxIDs rise or fall along the list.
NumberedBoxes(pool, n) ==
    { [k \in 1..Len(rois) |->
          BoundingBox(IF rising THEN k - 1 ELSE Len(rois) - k, rois[k])] :
        rois \in SeqsUpTo(pool, n), rising \in BOOLEAN }

MatchPool == { DMatch(0, 0), DMatch(0, 1), DMatch(1, 2), DMatch(2, 0) }

InitMatch ==
    /\ pc = "ready"
    /\ prevFrame \in { DataFrame(boxes, PrevKeypoints) :
                          boxes \in BoxesOver(PrevRoiPool, MaxPrevBoxes) }
    /\ currFrame \in { DataFrame(boxes, CurrKeypoints) :
                          boxes \in NumberedBoxes(CurrRoiPool, MaxCurrBoxes) }
    /\ kptMatches \in SeqsUpTo(MatchPool, MaxMatches)
    /\ bbBestMatches = <<>>
    /\ boundingBox = None
    /\ kptsPrev = None
    /\ kptsCurr = None
    /\ distRatios = None
    /\ frameRate = None
    /\ TTC = None
    /\ LidarIdle /\ RoiIdle

NextMatch == MatchBoundingBoxes

SpecMatch == InitMatch /\ [][NextMatch]_vars

\* The matches with the previous keypoint in previous box p and the current
\* keypoint in current box c (positions in the frames' box lists).
Votes(p, c) ==
    Cardinality({ j \in 1..Len(kptMatches) :
        /\ RectContains(prevFrame.boundingBoxes[p].roi,
                        prevFrame.keypoints[kptMatches[j].queryIdx + 1])
        /\ RectContains(currFrame.boundingBoxes[c].roi,
                        currFrame.keypoints[kptMatches[j].trainIdx + 1]) })

CurrBoxPositions == 1..Len(currFrame.boundingBoxes)

\* The current boxes with the most votes for previous box p.
MostVoted(p) ==
    { c \in CurrBoxPositions : \A d \in CurrBoxPositions : Votes(p, d) <= Votes(p, c) }

HasVotes(p) == \E c \in CurrBoxPositions : Votes(p, c) > 0

C5_NoVotesNoEntry ==
    pc # "ready" =>
        /\ pc = "matchBoundingBoxes"
        /\ \A p \in 1..Len(prevFrame.boundingBoxes) :
              ~HasVotes(p) => prevFrame.boundingBoxes[p].boxID \notin DOMAIN bbBestMatches

(***************************************************************************)
(* Correspondences with an index outside the keypoint lists                *)
(***************************************************************************)

MaxContractMatches == 3

MaxContractBoxes == 1

\* Grid has the keypoints 0 to 3: index 4 is the first outside it.
ContractMatchPool ==
    { DMatch(0, 0), DMatch(3, 3), DMatch(4, 4), DMatch(0, 4), DMatch(4, 0) }

InitContract ==
    /\ pc = "ready"
    /\ boundingBox \in { BoundingBox(0, roi) : roi \in KptRoiPool }
    /\ kptsPrev = Grid
    /\ kptsCurr = Grid
    /\ kptMatches \in SeqsUpTo(ContractMatchPool, MaxContractMatches)
    /\ distRatios = <<>>
    /\ frameRate \in FrameRates
    /\ TTC = None
    /\ prevFrame \in { DataFrame(boxes, kptsPrev) :
                          boxes \in BoxesOver(KptRoiPool, MaxContractBoxes) }
    /\ currFrame \in { DataFrame(boxes, kptsCurr) :
                          boxes \in NumberedBoxes(KptRoiPool, MaxContractBoxes) }
    /\ bbBestMatches = <<>>
    /\ LidarIdle /\ RoiIdle

NextContract ==
    \/ ClusterKptMatchesWithROI
    \/ ComputeTTCCamera
    \/ MatchBoundingBoxes

SpecContract == InitContract /\ [][NextContract]_vars

\* A correspondence with both indices outside the keypoint lists, in an
\* input of which every operation reads the correspondences' keypoints: two
\* correspondences at least, and a box in each frame.
IndexOutOfRangeUsed ==
    /\ \E j \in 1..Len(kptMatches) :
          /\ ~InRange(kptsPrev, kptMatches[j].queryIdx)
          /\ ~InRange(kptsCurr, kptMatches[j].trainIdx)
    /\ Len(kptMatches) >= 2
    /\ prevFrame.boundingBoxes # <<>>
    /\ currFrame.boundingBoxes # <<>>

\* C8: with a correspondence whose indices are outside the keypoint lists,
\* each of clusterKptMatchesWithROI, computeTTCCamera and matchBoundingBoxes
\* ends with an out-of-range error: none returns, none faults.
C8_FailFast ==
    (pc # "ready" /\ IndexOutOfRangeUsed) => pc = OutOfRange

====
